---- MODULE Spec2Model ----
(***************************************************************************)
(* URL shortener: the code generator (internal/pkg/utils/random.go), the   *)
(* SQLite mapping store (internal/repositories/shortener_repo.go) and the  *)
(* shortening service (internal/services/shortener_service.go).            *)
(*                                                                         *)
(* Every HTTP request runs on its own goroutine; the only shared state is  *)
(* the urls table.  Each SQL statement is one atomic step; the steps of    *)
(* one request interleave freely with those of the others.                 *)
(***************************************************************************)
EXTENDS Integers, Sequences, FiniteSets, TLC

VARIABLES
    urls,       \* the rows of table urls: [id, short_code, long_url]
    nextId,     \* the next AUTOINCREMENT id
    pc,         \* per request worker: the position in its handler
    req,        \* per worker: the call in progress [op, url, code]
    code,       \* per worker: the candidate code of the current attempt
    i,          \* per worker: the retry loop counter of CreateShortURL
    res,        \* per worker: what the call returned
    calls,      \* per worker: store and generator calls made by the call
    before,     \* the table as it was when the latest request arrived
    prev,       \* per worker: the call it completed before this one, and
                \* the table as it was when a request last arrived before it
    budget,     \* per worker: how many more calls it may begin
    genLen,     \* generator harness: the requested length
    genOut,     \* generator harness: [done, bytes, str] of the last call
    failed      \* per worker: the call of the request in progress that
                \* returned a database or entropy error, "" if none did

vars == <<urls, nextId, pc, req, code, i, res, calls, before, prev, budget,
          genLen, genOut, failed>>

(***************************************************************************)
(* Bounds of the model.                                                    *)
(***************************************************************************)
NumWorkers == 2
MaxCalls == 2
MaxSeqCalls == 5
NumSeeds == 2
MaxGenLen == 9

Workers == 1..NumWorkers

(***************************************************************************)
(* Program constants.                                                      *)
(***************************************************************************)
shortCodeLength == 7
maxGenerationRetries == 5

(***************************************************************************)
(* internal/pkg/utils/random.go                                            *)
(***************************************************************************)

\* base64.RawURLEncoding's alphabet: A-Z a-z 0-9 - _ , no padding character.
encodeURL ==
    << "A","B","C","D","E","F","G","H","I","J","K","L","M",
       "N","O","P","Q","R","S","T","U","V","W","X","Y","Z",
       "a","b","c","d","e","f","g","h","i","j","k","l","m",
       "n","o","p","q","r","s","t","u","v","w","x","y","z",
       "0","1","2","3","4","5","6","7","8","9","-","_" >>

Pow2(n) == IF n = 0 THEN 1 ELSE IF n = 1 THEN 2 ELSE IF n = 2 THEN 4
           ELSE IF n = 3 THEN 8 ELSE IF n = 4 THEN 16 ELSE IF n = 5 THEN 32
           ELSE IF n = 6 THEN 64 ELSE 128

\* bit k (0 = most significant bit of the first byte) of a byte string;
\* the bits past the end are the zero bits the encoder pads the last group with
BitAt(b, k) ==
    IF k >= 8 * Len(b) THEN 0
    ELSE (b[(k \div 8) + 1] \div Pow2(7 - (k % 8))) % 2

\* the j-th (0-based) 6-bit group of the byte string
Sextet(b, j) ==
    32 * BitAt(b, 6*j) + 16 * BitAt(b, 6*j + 1) + 8 * BitAt(b, 6*j + 2)
    + 4 * BitAt(b, 6*j + 3) + 2 * BitAt(b, 6*j + 4) + BitAt(b, 6*j + 5)

\* Encoding.EncodedLen for an encoding without padding
EncodedLen(n) == (n \div 3) * 4 + ((n % 3) * 8 + 5) \div 6

\* base64.RawURLEncoding.EncodeToString
EncodeToString(b) ==
    [j \in 1..EncodedLen(Len(b)) |-> encodeURL[Sextet(b, j - 1) + 1]]

\* mutant: the extra byte is forgotten
NumBytes_NoExtraByte(length) == (length * 6) \div 8

\* mutant: the byte count is rounded up before the extra byte is added
NumBytes_RoundedUp(length) == (length * 6 + 7) \div 8 + 1

\* numBytes := (length*6)/8 + 1
NumBytes(length) == (length * 6) \div 8 + 1

\* GenerateRandomString, given the bytes rand.Read filled the buffer with
GenerateRandomString(length, b) ==
    LET randomString == EncodeToString(b)
    IN  IF Len(randomString) > length
        THEN SubSeq(randomString, 1, length)
        ELSE randomString

\* what rand.Read may fill a buffer of n bytes with: one byte string per seed
RandRead(n, seeds) ==
    { [k \in 1..n |-> (seed * 83 + k * seed * 29) % 256] : seed \in seeds }

\* the entropy the service's requests see (a small keyspace, so that
\* collisions happen) and the entropy the generator harness sees
Seeds == 1..NumSeeds
WideSeeds == 0..11

\* utils.GenerateRandomString(shortCodeLength) as CreateShortURL calls it:
\* every code it can return, one per outcome of rand.Read
Codes ==
    { GenerateRandomString(shortCodeLength, b) :
        b \in RandRead(NumBytes(shortCodeLength), Seeds) }

(***************************************************************************)
(* url.ParseRequestURI on the request strings of the model: whether it     *)
(* returns an error, and the Scheme and Host of the URL it returns.        *)
(***************************************************************************)
ValidInputs == { "https://example.com/a", "http://example.com/b" }
InvalidInputs == { "ftp://example.com/a", "example.com/a", "http:///a" }
Inputs == ValidInputs \cup InvalidInputs

ParseRequestURI(s) ==
    CASE s = "https://example.com/a" ->
            [err |-> FALSE, Scheme |-> "https", Host |-> "example.com"]
      [] s = "http://example.com/b" ->
            [err |-> FALSE, Scheme |-> "http", Host |-> "example.com"]
      [] s = "ftp://example.com/a" ->
            [err |-> FALSE, Scheme |-> "ftp", Host |-> "example.com"]
      [] s = "http:///a" ->
            [err |-> FALSE, Scheme |-> "http", Host |-> ""]
      [] OTHER ->   \* "example.com/a": invalid URI for request
            [err |-> TRUE, Scheme |-> "", Host |-> ""]

\* mutant: the scheme is not checked
ValidateURL_AnyScheme(inputURL) ==
    LET u == ParseRequestURI(inputURL)
    IN  IF u.err THEN FALSE ELSE u.Host # ""

\* shortenerSvc.ValidateURL
ValidateURL(inputURL) ==
    LET u == ParseRequestURI(inputURL)
    IN  IF u.err THEN FALSE
        ELSE (u.Scheme = "http" \/ u.Scheme = "https") /\ u.Host # ""

(***************************************************************************)
(* internal/repositories/shortener_repo.go: each method as a function of   *)
(* the table.                                                              *)
(***************************************************************************)
RowsByCode(t, shortCode) == { r \in t : r.short_code = shortCode }
RowsByURL(t, longURL) == { r \in t : r.long_url = longURL }

\* mutant: the column short_code is not declared UNIQUE
SaveMapping_NoUnique(t, id, shortCode, longURL) ==
    [err |-> "nil",
     t |-> t \cup {[id |-> id, short_code |-> shortCode, long_url |-> longURL]}]

\* mutant: the INSERT replaces the row that has the short_code
SaveMapping_Replaces(t, id, shortCode, longURL) ==
    [err |-> "nil",
     t |-> (t \ RowsByCode(t, shortCode)) \cup
           {[id |-> id, short_code |-> shortCode, long_url |-> longURL]}]

\* SaveMapping: the INSERT fails on the UNIQUE constraint of short_code
SaveMapping(t, id, shortCode, longURL) ==
    IF RowsByCode(t, shortCode) # {}
    THEN [err |-> "unique", t |-> t]
    ELSE [err |-> "nil",
          t |-> t \cup {[id |-> id, short_code |-> shortCode,
                         long_url |-> longURL]}]

\* FindByShortCode: sql.ErrNoRows becomes ErrNotFound
FindByShortCode(t, shortCode) ==
    IF RowsByCode(t, shortCode) = {}
    THEN [err |-> "ErrNotFound", longURL |-> ""]
    ELSE [err |-> "nil",
          longURL |-> (CHOOSE r \in RowsByCode(t, shortCode) : TRUE).long_url]

\* mutant: the reverse lookup never finds a row
FindByLongURL_NeverFinds(t, longURL) == { <<>> }

\* mutant: the WHERE clause of the reverse lookup is lost
FindByLongURL_AnyRow(t, longURL) ==
    IF t = {} THEN { <<>> } ELSE { r.short_code : r \in t }

\* FindByLongURL: SELECT ... LIMIT 1 without ORDER BY returns the code of
\* any one matching row; no row is ("", nil), not an error
FindByLongURL(t, longURL) ==
    IF RowsByURL(t, longURL) = {}
    THEN { <<>> }
    ELSE { r.short_code : r \in RowsByURL(t, longURL) }

\* mutant: the UPDATE reports the row it matched and leaves its long_url
UpdateLongURL_KeepsOldURL(t, shortCode, newLongURL) ==
    [err |-> IF RowsByCode(t, shortCode) = {} THEN "ErrNotFound" ELSE "nil",
     t |-> t]

\* mutant: RowsAffected is not looked at
UpdateLongURL_IgnoresRowsAffected(t, shortCode, newLongURL) ==
    [err |-> "nil",
     t |-> { IF r.short_code = shortCode
             THEN [r EXCEPT !.long_url = newLongURL] ELSE r : r \in t }]

\* mutant: the UPDATE leaves a row alone when another code has the new URL
UpdateLongURL_SkipsAliases(t, shortCode, newLongURL) ==
    IF \E r \in t : r.short_code # shortCode /\ r.long_url = newLongURL
    THEN [err |-> "ErrNotFound", t |-> t]
    ELSE [err |-> IF RowsByCode(t, shortCode) = {} THEN "ErrNotFound"
                  ELSE "nil",
          t |-> { IF r.short_code = shortCode
                  THEN [r EXCEPT !.long_url = newLongURL] ELSE r : r \in t }]

\* mutant: the WHERE clause of the UPDATE is lost
UpdateLongURL_AllRows(t, shortCode, newLongURL) ==
    [err |-> IF RowsByCode(t, shortCode) = {} THEN "ErrNotFound" ELSE "nil",
     t |-> { [r EXCEPT !.long_url = newLongURL] : r \in t }]

\* UpdateLongURL: ErrNotFound when no row was affected
UpdateLongURL(t, shortCode, newLongURL) ==
    [err |-> IF RowsByCode(t, shortCode) = {} THEN "ErrNotFound" ELSE "nil",
     t |-> { IF r.short_code = shortCode
             THEN [r EXCEPT !.long_url = newLongURL] ELSE r : r \in t }]

\* mutant: RowsAffected is not looked at
DeleteMapping_IgnoresRowsAffected(t, shortCode) ==
    [err |-> "nil", t |-> t \ RowsByCode(t, shortCode)]

\* DeleteMapping: ErrNotFound when no row was affected
DeleteMapping(t, shortCode) ==
    [err |-> IF RowsByCode(t, shortCode) = {} THEN "ErrNotFound" ELSE "nil",
     t |-> t \ RowsByCode(t, shortCode)]

(***************************************************************************)
(* The requests.                                                           *)
(***************************************************************************)
NoCode == <<>>
NoReq == [op |-> "none", url |-> "", code |-> NoCode]
NoRes == [kind |-> "none", code |-> NoCode, url |-> "", cause |-> ""]
NoCalls == [lookups |-> 0, gens |-> 0, probes |-> 0, saves |-> 0,
            writes |-> 0]
NoPrev == [req |-> NoReq, res |-> NoRes, before |-> {}]

Ok(c, u) == [kind |-> "ok", code |-> c, url |-> u, cause |-> ""]
Err(kind, cause) == [kind |-> kind, code |-> NoCode, url |-> "", cause |-> cause]

InitWith(b, L) ==
    /\ urls = {}
    /\ nextId = 1
    /\ pc = [p \in Workers |-> "idle"]
    /\ req = [p \in Workers |-> NoReq]
    /\ code = [p \in Workers |-> NoCode]
    /\ i = [p \in Workers |-> 0]
    /\ res = [p \in Workers |-> NoRes]
    /\ calls = [p \in Workers |-> NoCalls]
    /\ before = {}
    /\ prev = [p \in Workers |-> NoPrev]
    /\ budget = b
    /\ genLen \in L
    /\ genOut = [done |-> FALSE, bytes |-> <<>>, str |-> <<>>]
    /\ failed = [p \in Workers |-> ""]

\* the requests run concurrently and share a pool of MaxCalls calls
Init == InitWith([p \in Workers |-> MaxCalls], {0})

\* one client, one request at a time
InitSeq == InitWith([p \in Workers |-> IF p = 1 THEN MaxSeqCalls ELSE 0], {0})

\* a request arrives at a worker that is free (it has served none yet, or
\* has returned from its last one): the handler calls the service (or, for a
\* redirect, the repository) with the arguments of the request
Begin(p, op, u, c) ==
    /\ pc[p] \in {"idle", "done"}
    /\ budget[p] > 0
    /\ budget' = [q \in Workers |-> IF budget[q] > 0 THEN budget[q] - 1 ELSE 0]
    /\ req' = [req EXCEPT ![p] = [op |-> op, url |-> u, code |-> c]]
    /\ pc' = [pc EXCEPT ![p] = op]
    /\ code' = [code EXCEPT ![p] = NoCode]
    /\ i' = [i EXCEPT ![p] = 0]
    /\ res' = [res EXCEPT ![p] = NoRes]
    /\ calls' = [calls EXCEPT ![p] = NoCalls]
    /\ before' = urls
    /\ prev' = [prev EXCEPT ![p] =
                    [req |-> req[p], res |-> res[p], before |-> before]]
    /\ failed' = [failed EXCEPT ![p] = ""]
    /\ UNCHANGED <<urls, nextId, genLen, genOut>>

Finish(p, r) ==
    /\ res' = [res EXCEPT ![p] = r]
    /\ pc' = [pc EXCEPT ![p] = "done"]

Count(p, f) == [calls EXCEPT ![p][f] = @ + 1]

(***************************************************************************)
(* shortenerSvc.CreateShortURL                                             *)
(***************************************************************************)

\* lines 34-36: the URL is validated before anything else
CreateValidate(p) ==
    /\ pc[p] = "create"
    /\ IF ~ValidateURL(req[p].url)
       THEN Finish(p, Err("InvalidURL", ""))
       ELSE /\ pc' = [pc EXCEPT ![p] = "lookup"]
            /\ UNCHANGED res
    /\ UNCHANGED <<urls, nextId, req, code, i, calls, before, prev, budget,
                   genLen, genOut,
                   failed>>

\* lines 38-46: the reverse lookup; an existing code is returned as it is
CreateLookup(p) ==
    /\ pc[p] = "lookup"
    /\ \E existingCode \in FindByLongURL(urls, req[p].url) :
         IF existingCode # NoCode
         THEN Finish(p, Ok(existingCode, ""))
         ELSE /\ pc' = [pc EXCEPT ![p] = "gen"]
              /\ UNCHANGED res
    /\ calls' = Count(p, "lookups")
    /\ i' = [i EXCEPT ![p] = 0]
    /\ UNCHANGED <<urls, nextId, req, code, before, prev, budget,
                   genLen, genOut,
                   failed>>

\* mutant: the loop runs while i <= maxGenerationRetries
CreateProbe_OneMoreAttempt(p) ==
    /\ pc[p] = "gen"
    /\ i[p] <= maxGenerationRetries
    /\ \E c \in Codes :
         /\ code' = [code EXCEPT ![p] = c]
         /\ IF FindByShortCode(urls, c).err = "ErrNotFound"
            THEN /\ pc' = [pc EXCEPT ![p] = "save"]
                 /\ UNCHANGED i
            ELSE /\ pc' = [pc EXCEPT ![p] = "gen"]
                 /\ i' = [i EXCEPT ![p] = @ + 1]
    /\ calls' = [calls EXCEPT ![p].gens = @ + 1, ![p].probes = @ + 1]
    /\ UNCHANGED <<urls, nextId, req, res, before, prev, budget,
                   genLen, genOut,
                   failed>>

\* lines 48-56, 68: one attempt of the retry loop up to its probe. The
\* candidate is generated (a computation local to the request) and probed;
\* a code that is present is a collision and the loop goes on
CreateProbe(p) ==
    /\ pc[p] = "gen"
    /\ i[p] < maxGenerationRetries
    /\ \E c \in Codes :
         /\ code' = [code EXCEPT ![p] = c]
         /\ IF FindByShortCode(urls, c).err = "ErrNotFound"
            THEN /\ pc' = [pc EXCEPT ![p] = "save"]
                 /\ UNCHANGED i
            ELSE /\ pc' = [pc EXCEPT ![p] = "gen"]
                 /\ i' = [i EXCEPT ![p] = @ + 1]
    /\ calls' = [calls EXCEPT ![p].gens = @ + 1, ![p].probes = @ + 1]
    /\ UNCHANGED <<urls, nextId, req, res, before, prev, budget,
                   genLen, genOut,
                   failed>>

\* mutant: an insert that fails is taken for a collision and retried
CreateSave_RetriesOnError(p) ==
    /\ pc[p] = "save"
    /\ LET s == SaveMapping(urls, nextId, code[p], req[p].url)
       IN  /\ urls' = s.t
           /\ IF s.err # "nil"
              THEN /\ pc' = [pc EXCEPT ![p] = "gen"]
                   /\ i' = [i EXCEPT ![p] = @ + 1]
                   /\ calls' = Count(p, "saves")
                   /\ failed' = [failed EXCEPT ![p] = "save"]
                   /\ UNCHANGED <<nextId, res>>
              ELSE /\ Finish(p, Ok(code[p], ""))
                   /\ calls' = [calls EXCEPT ![p].saves = @ + 1,
                                             ![p].writes = @ + 1]
                   /\ nextId' = nextId + 1
                   /\ UNCHANGED <<failed, i>>
    /\ UNCHANGED <<req, code, before, prev, budget, genLen, genOut>>

\* lines 57-63: the insert; any error of SaveMapping ends the request
CreateSave(p) ==
    /\ pc[p] = "save"
    /\ LET s == SaveMapping(urls, nextId, code[p], req[p].url)
       IN  /\ urls' = s.t
           /\ IF s.err # "nil"
              THEN /\ Finish(p, Err("StorageError", s.err))
                   /\ calls' = Count(p, "saves")
                   /\ failed' = [failed EXCEPT ![p] = "save"]
                   /\ UNCHANGED nextId
              ELSE /\ Finish(p, Ok(code[p], ""))
                   /\ calls' = [calls EXCEPT ![p].saves = @ + 1,
                                             ![p].writes = @ + 1]
                   /\ nextId' = nextId + 1
                   /\ UNCHANGED failed
    /\ UNCHANGED <<req, code, i, before, prev, budget, genLen, genOut>>

\* mutant: the loop gives up one attempt early
CreateExhausted_OneEarly(p) ==
    /\ pc[p] = "gen"
    /\ i[p] >= maxGenerationRetries - 1
    /\ Finish(p, Err("ExhaustedRetries", ""))
    /\ UNCHANGED <<urls, nextId, req, code, i, calls, before, prev, budget,
                   genLen, genOut,
                   failed>>

\* lines 71-72: the retry budget is used up
CreateExhausted(p) ==
    /\ pc[p] = "gen"
    /\ i[p] >= maxGenerationRetries
    /\ Finish(p, Err("ExhaustedRetries", ""))
    /\ UNCHANGED <<urls, nextId, req, code, i, calls, before, prev, budget,
                   genLen, genOut,
                   failed>>

(***************************************************************************)
(* shortenerSvc.CreateShortURL when a call it makes returns an error that  *)
(* the state of the table does not decide: the database fails (the file is *)
(* locked, the disk is full, the connection is closed) or rand.Read does.  *)
(***************************************************************************)

\* mutant: the error of the reverse lookup is ignored
CreateLookupFault_Ignored(p) ==
    /\ pc[p] = "lookup"
    /\ pc' = [pc EXCEPT ![p] = "gen"]
    /\ calls' = Count(p, "lookups")
    /\ failed' = [failed EXCEPT ![p] = "lookup"]
    /\ UNCHANGED <<urls, nextId, req, code, i, res, before, prev, budget,
                   genLen, genOut>>

\* lines 38-42: FindByLongURL returns an error
CreateLookupFault(p) ==
    /\ pc[p] = "lookup"
    /\ Finish(p, Err("StorageError", "lookup"))
    /\ calls' = Count(p, "lookups")
    /\ failed' = [failed EXCEPT ![p] = "lookup"]
    /\ UNCHANGED <<urls, nextId, req, code, i, before, prev, budget,
                   genLen, genOut>>

\* lines 48-52: GenerateRandomString returns the error of rand.Read
CreateGenerateFault(p) ==
    /\ pc[p] = "gen"
    /\ i[p] < maxGenerationRetries
    /\ Finish(p, Err("GenerationError", "rand"))
    /\ calls' = Count(p, "gens")
    /\ failed' = [failed EXCEPT ![p] = "rand"]
    /\ UNCHANGED <<urls, nextId, req, code, i, before, prev, budget,
                   genLen, genOut>>

\* mutant: every error of the probe is taken for ErrNotFound
CreateProbeFault_TakenForAbsent(p) ==
    /\ pc[p] = "gen"
    /\ i[p] < maxGenerationRetries
    /\ \E c \in Codes : code' = [code EXCEPT ![p] = c]
    /\ pc' = [pc EXCEPT ![p] = "save"]
    /\ calls' = [calls EXCEPT ![p].gens = @ + 1, ![p].probes = @ + 1]
    /\ failed' = [failed EXCEPT ![p] = "probe"]
    /\ UNCHANGED <<urls, nextId, req, i, res, before, prev, budget,
                   genLen, genOut>>

\* lines 48-55, 65-66: FindByShortCode returns an error that is not
\* ErrNotFound
CreateProbeFault(p) ==
    /\ pc[p] = "gen"
    /\ i[p] < maxGenerationRetries
    /\ \E c \in Codes : code' = [code EXCEPT ![p] = c]
    /\ Finish(p, Err("StorageError", "probe"))
    /\ calls' = [calls EXCEPT ![p].gens = @ + 1, ![p].probes = @ + 1]
    /\ failed' = [failed EXCEPT ![p] = "probe"]
    /\ UNCHANGED <<urls, nextId, req, i, before, prev, budget,
                   genLen, genOut>>

\* lines 57-61: SaveMapping returns an error though the code is free
CreateSaveFault(p) ==
    /\ pc[p] = "save"
    /\ Finish(p, Err("StorageError", "io"))
    /\ calls' = Count(p, "saves")
    /\ failed' = [failed EXCEPT ![p] = "save"]
    /\ UNCHANGED <<urls, nextId, req, code, i, before, prev, budget,
                   genLen, genOut>>

CreateFault(p) ==
    \/ CreateLookupFault(p)
    \/ CreateGenerateFault(p)
    \/ CreateProbeFault(p)
    \/ CreateSaveFault(p)

(***************************************************************************)
(* shortenerSvc.UpdateLongURL                                              *)
(***************************************************************************)

\* mutant: the new URL is not validated
UpdateValidate_Skipped(p) ==
    /\ pc[p] = "update"
    /\ pc' = [pc EXCEPT ![p] = "updateExec"]
    /\ UNCHANGED <<urls, nextId, req, code, i, res, calls, before, prev,
                   budget, genLen, genOut, failed>>

\* lines 84-86
UpdateValidate(p) ==
    /\ pc[p] = "update"
    /\ IF ~ValidateURL(req[p].url)
       THEN Finish(p, Err("InvalidURL", ""))
       ELSE /\ pc' = [pc EXCEPT ![p] = "updateExec"]
            /\ UNCHANGED res
    /\ UNCHANGED <<urls, nextId, req, code, i, calls, before, prev, budget,
                   genLen, genOut,
                   failed>>

\* lines 88-99: the conditional update of the store
UpdateExec(p) ==
    /\ pc[p] = "updateExec"
    /\ LET u == UpdateLongURL(urls, req[p].code, req[p].url)
       IN  /\ urls' = u.t
           /\ IF u.err = "ErrNotFound"
              THEN /\ Finish(p, Err("NotFound", ""))
                   /\ UNCHANGED calls
              ELSE /\ Finish(p, Ok(req[p].code, ""))
                   /\ calls' = Count(p, "writes")
    /\ UNCHANGED <<nextId, req, code, i, before, prev, budget, genLen, genOut,
                   failed>>

(***************************************************************************)
(* shortenerSvc.DeleteMapping                                              *)
(***************************************************************************)
DeleteExec(p) ==
    /\ pc[p] = "delete"
    /\ LET d == DeleteMapping(urls, req[p].code)
       IN  /\ urls' = d.t
           /\ IF d.err = "ErrNotFound"
              THEN /\ Finish(p, Err("NotFound", ""))
                   /\ UNCHANGED calls
              ELSE /\ Finish(p, Ok(req[p].code, ""))
                   /\ calls' = Count(p, "writes")
    /\ UNCHANGED <<nextId, req, code, i, before, prev, budget, genLen, genOut,
                   failed>>

(***************************************************************************)
(* ShortenerHandler.handleRedirectOrRoot: repo.FindByShortCode             *)
(***************************************************************************)
FindExec(p) ==
    /\ pc[p] = "find"
    /\ LET f == FindByShortCode(urls, req[p].code)
       IN  IF f.err = "ErrNotFound"
           THEN Finish(p, Err("NotFound", ""))
           ELSE Finish(p, Ok(req[p].code, f.longURL))
    /\ UNCHANGED <<urls, nextId, req, code, i, calls, before, prev, budget,
                   genLen, genOut,
                   failed>>

BeginCreate(p) == \E u \in Inputs : Begin(p, "create", u, NoCode)
BeginUpdate(p) ==
    \E c \in Codes, u \in ValidInputs \cup {"ftp://example.com/a"} :
        Begin(p, "update", u, c)
BeginDelete(p) == \E c \in Codes : Begin(p, "delete", "", c)
BeginFind(p) == \E c \in Codes : Begin(p, "find", "", c)

CreateStep(p) ==
    \/ CreateValidate(p)
    \/ CreateLookup(p)
    \/ CreateProbe(p)
    \/ CreateSave(p)
    \/ CreateExhausted(p)

Next ==
    \E p \in Workers :
        \/ BeginCreate(p)
        \/ BeginUpdate(p)
        \/ BeginDelete(p)
        \/ BeginFind(p)
        \/ CreateStep(p)
        \/ UpdateValidate(p)
        \/ UpdateExec(p)
        \/ DeleteExec(p)
        \/ FindExec(p)

Spec == Init /\ [][Next]_vars

\* the same requests, one client, one at a time
SpecSeq == InitSeq /\ [][Next]_vars

\* creations only, concurrently
NextCreate == \E p \in Workers : BeginCreate(p) \/ CreateStep(p)
SpecCreate == Init /\ [][NextCreate]_vars

(***************************************************************************)
(* The generator on its own: a caller asks for a string of genLen          *)
(* characters, for every length up to MaxGenLen, beside one client that    *)
(* creates short URLs.                                                     *)
(***************************************************************************)
GenCall ==
    /\ ~genOut.done
    /\ \E b \in RandRead(NumBytes(genLen), WideSeeds) :
         genOut' = [done |-> TRUE, bytes |-> b,
                    str |-> GenerateRandomString(genLen, b)]
    /\ UNCHANGED <<urls, nextId, pc, req, code, i, res, calls, before, prev,
                   budget, genLen, failed>>

InitGen == InitWith([p \in Workers |-> IF p = 1 THEN 2 ELSE 0], 1..MaxGenLen)
NextGen == GenCall \/ NextCreate
SpecGen == InitGen /\ [][NextGen]_vars

(***************************************************************************)
(* The same with a database and an entropy source that can fail.           *)
(***************************************************************************)

\* creations only, concurrently
NextFault == NextCreate \/ \E p \in Workers : CreateFault(p)
SpecFault == Init /\ [][NextFault]_vars

\* each request is served by a goroutine of its own that the scheduler
\* keeps running, and every call it makes returns
SpecFaultFair ==
    SpecFault /\ \A p \in Workers : WF_vars(CreateStep(p) \/ CreateFault(p))

\* every request, one client, one at a time
NextSeqFault == Next \/ \E p \in Workers : CreateFault(p)
SpecSeqFault == InitSeq /\ [][NextSeqFault]_vars

(***************************************************************************)
(* Properties.                                                             *)
(***************************************************************************)
Done(p, op) == pc[p] = "done" /\ req[p].op = op

\* the call p completed just before the one it is in
After(p, op) == prev[p].req.op = op /\ prev[p].res.kind = "ok"

\* p has returned from a second CreateShortURL(U) in a row, U valid, the
\* first of which succeeded
TwiceCreated(p) ==
    /\ Done(p, "create")
    /\ req[p].url \in ValidInputs
    /\ After(p, "create")
    /\ prev[p].req.url = req[p].url

\* C1 as stated: CreateShortURL(U) twice in sequence, the first succeeding
\* with code C: the second returns C too and the store holds exactly one
\* mapping whose long_url is U.
C1_IdempotentExactlyOne ==
    \A p \in Workers :
        TwiceCreated(p) =>
            /\ res[p].kind = "ok"
            /\ res[p].code = prev[p].res.code
            /\ Cardinality(RowsByURL(urls, req[p].url)) = 1

\* C1 as amended: the second call succeeds, leaves the store as it was and
\* returns the code of a mapping whose long_url is U; when at most one
\* mapping had long_url U before the first call, the second call returns the
\* code C of the first and the store holds exactly one mapping for U.
C1_IdempotentUnlessAliased ==
    \A p \in Workers :
        TwiceCreated(p) =>
            /\ res[p].kind = "ok"
            /\ urls = before
            /\ \E r \in urls :
                   r.short_code = res[p].code /\ r.long_url = req[p].url
            /\ Cardinality(RowsByURL(prev[p].before, req[p].url)) <= 1 =>
                   /\ res[p].code = prev[p].res.code
                   /\ Cardinality(RowsByURL(urls, req[p].url)) = 1

\* the first call created the mapping, the second found it
C1_Witness ==
    \E p \in Workers :
        /\ TwiceCreated(p)
        /\ RowsByURL(prev[p].before, req[p].url) = {}
        /\ res[p].code = prev[p].res.code

\* C2: in every reachable state, whatever the interleaving of creations,
\* updates and deletions, no two rows of the table have the same short_code.
C2_UniqueShortCode ==
    \A r1 \in urls : \A r2 \in urls :
        r1.short_code = r2.short_code => r1 = r2

\* two requests probed the same code as absent; one inserted it, and the
\* insert of the other was refused by the UNIQUE constraint
C2_Witness ==
    \E p \in Workers :
        /\ Done(p, "create")
        /\ res[p].cause = "unique"
        /\ \E r \in urls : r.short_code = code[p] /\ r.long_url # req[p].url

\* C3: an insert refused by the uniqueness constraint is a collision: the
\* request goes on to its next attempt and does not end with a storage error.
C3_RejectedInsertIsRetried ==
    \A p \in Workers :
        ~(Done(p, "create") /\ res[p].kind = "StorageError"
                            /\ res[p].cause = "unique")

\* C4: with creations only, in any interleaving, no two rows of the table
\* have the same long_url.
C4_OncePerLongURL ==
    \A r1 \in urls : \A r2 \in urls :
        r1.long_url = r2.long_url => r1 = r2

\* C5: when CreateShortURL(U) has returned code C, FindByShortCode(C) on the
\* table as the call left it returns U, and so does the redirect request for
\* C that the client issues next.
C5_RoundTrip ==
    \A p \in Workers :
        /\ (Done(p, "create") /\ res[p].kind = "ok") =>
               FindByShortCode(urls, res[p].code) =
                   [err |-> "nil", longURL |-> req[p].url]
        /\ (Done(p, "find") /\ After(p, "create")
                /\ req[p].code = prev[p].res.code) =>
               res[p].kind = "ok" /\ res[p].url = prev[p].req.url

\* a redirect for the code that a deduplicated creation has just returned
C5_Witness ==
    \E p \in Workers :
        /\ Done(p, "find") /\ After(p, "create")
        /\ req[p].code = prev[p].res.code
        /\ RowsByURL(prev[p].before, prev[p].req.url) # {}
        /\ res[p].url = prev[p].req.url

\* C6: a CreateShortURL whose input fails validation never gets past the
\* validation: it makes no reverse lookup, generates and probes no code,
\* saves nothing, leaves the table as it was, and returns the invalid-URL
\* error.
C6_InvalidURLNoStoreAccess ==
    \A p \in Workers :
        (req[p].op = "create" /\ req[p].url \in InvalidInputs) =>
            /\ pc[p] \in {"create", "done"}
            /\ calls[p] = NoCalls
            /\ urls = before
            /\ pc[p] = "done" => res[p] = Err("InvalidURL", "")

\* an invalid creation has returned while the table holds a mapping
C6_Witness ==
    \E p \in Workers :
        /\ Done(p, "create")
        /\ req[p].url \in InvalidInputs
        /\ res[p].kind = "InvalidURL"
        /\ urls # {}

\* C7: a CreateShortURL of a valid, unmapped URL whose 5 probes all found
\* the candidate present returns the exhausted-retries error after exactly 5
\* probes (and 5 generations, one reverse lookup) and no SaveMapping call,
\* and leaves the table as it was; the error is returned in no other case.
C7_ExhaustedAfterFiveCollisions ==
    \A p \in Workers :
        /\ i[p] <= 5
        /\ (Done(p, "create") /\ i[p] = 5) =>
               res[p] = Err("ExhaustedRetries", "")
        /\ (Done(p, "create") /\ res[p].kind = "ExhaustedRetries") =>
               /\ req[p].url \in ValidInputs
               /\ RowsByURL(before, req[p].url) = {}
               /\ i[p] = 5
               /\ calls[p] = [lookups |-> 1, gens |-> 5, probes |-> 5,
                              saves |-> 0, writes |-> 0]
               /\ urls = before

C7_Witness ==
    \E p \in Workers :
        /\ Done(p, "create")
        /\ res[p].kind = "ExhaustedRetries"
        /\ calls[p].probes = 5

\* C8: UpdateLongURL(C, V) with V valid: when the table has no row for C it
\* returns not-found and leaves the table as it was; when it has one it
\* succeeds and FindByShortCode(C) then returns V, also as the next request.
C8_UpdateThenFind ==
    \A p \in Workers :
        /\ (Done(p, "update") /\ req[p].url \in ValidInputs) =>
               IF RowsByCode(before, req[p].code) = {}
               THEN res[p].kind = "NotFound" /\ urls = before
               ELSE /\ res[p].kind = "ok"
                    /\ FindByShortCode(urls, req[p].code) =
                           [err |-> "nil", longURL |-> req[p].url]
        /\ (Done(p, "find") /\ After(p, "update")
                /\ req[p].code = prev[p].req.code) =>
               res[p].kind = "ok" /\ res[p].url = prev[p].req.url

\* a redirect after an update that changed the URL of the code
C8_Witness ==
    \E p \in Workers :
        /\ Done(p, "find") /\ After(p, "update")
        /\ req[p].code = prev[p].req.code
        /\ \E r \in prev[p].before :
               r.short_code = req[p].code /\ r.long_url # prev[p].req.url
        /\ res[p].url = prev[p].req.url

\* an update of a code that has no mapping, while others have
C8_WitnessNotFound ==
    \E p \in Workers :
        Done(p, "update") /\ res[p].kind = "NotFound" /\ urls # {}

\* C9: DeleteMapping(C) returns not-found when the table has no row for C;
\* after a successful one FindByShortCode(C) returns not-found, and so do
\* the redirect for C and the second DeleteMapping(C) that the client
\* issues next.
C9_DeleteThenNotFound ==
    \A p \in Workers :
        /\ Done(p, "delete") =>
               IF RowsByCode(before, req[p].code) = {}
               THEN res[p].kind = "NotFound"
               ELSE /\ res[p].kind = "ok"
                    /\ FindByShortCode(urls, req[p].code).err = "ErrNotFound"
        /\ ((Done(p, "find") \/ Done(p, "delete")) /\ After(p, "delete")
                /\ req[p].code = prev[p].req.code) =>
               res[p].kind = "NotFound"

\* a second deletion of the code that was just deleted
C9_Witness ==
    \E p \in Workers :
        /\ Done(p, "delete") /\ After(p, "delete")
        /\ req[p].code = prev[p].req.code
        /\ res[p].kind = "NotFound"

\* C10: for every requested length L from 1 to MaxGenLen (7 among them) the
\* encoding of the drawn bytes has at least L characters and the generator
\* returns exactly L characters; every code that a creating CreateShortURL
\* saves and returns has exactly 7 characters.
C10_GeneratedLength ==
    /\ genOut.done =>
           /\ Len(EncodeToString(genOut.bytes)) >= genLen
           /\ Len(genOut.str) = genLen
    /\ \A r \in urls : Len(r.short_code) = 7
    /\ \A p \in Workers :
           (Done(p, "create") /\ res[p].kind = "ok") => Len(res[p].code) = 7

\* the generator has returned 7 characters and a creation has returned
C10_Witness ==
    /\ genOut.done /\ genLen = 7 /\ Len(genOut.str) = 7
    /\ \E p \in Workers :
           Done(p, "create") /\ res[p].kind = "ok" /\ calls[p].saves = 1

\* ceil(a / b) for positive b
CeilDiv(a, b) == (a + b - 1) \div b

\* C11 as stated: for every length L the generator draws exactly
\* ceil(L*6/8) + 1 random bytes (7 bytes for L = 7).
C11_DrawsCeilPlusOne ==
    genOut.done => Len(genOut.bytes) = CeilDiv(genLen * 6, 8) + 1

\* C11 as amended: for every length L the generator draws exactly
\* floor(L*6/8) + 1 random bytes (the integer division of the code rounds
\* down): 6 bytes for L = 7. That is ceil(L*6/8) + 1 only when L is a
\* multiple of 4, and one byte fewer otherwise.
C11_DrawsFloorPlusOne ==
    genOut.done =>
        /\ Len(genOut.bytes) = (genLen * 6) \div 8 + 1
        /\ genLen = 7 => Len(genOut.bytes) = 6
        /\ Len(genOut.bytes) =
               IF genLen % 4 = 0 THEN CeilDiv(genLen * 6, 8) + 1
               ELSE CeilDiv(genLen * 6, 8)

\* the generator has been called for 7 characters and has drawn 6 bytes
C11_Witness ==
    genOut.done /\ genLen = 7 /\ Len(genOut.bytes) = 6 /\ Len(genOut.str) = 7

\* C12: a CreateShortURL whose SaveMapping call failed (it wrote no row) has
\* returned a storage error, and that call was the last thing it did: it has
\* made one SaveMapping call, and as many generations and probes as it had
\* made when it reached the insert.
C12_FailedSaveIsFatal ==
    \A p \in Workers :
        /\ calls[p].saves <= 1
        /\ (req[p].op = "create" /\ calls[p].saves > calls[p].writes) =>
               /\ pc[p] = "done"
               /\ failed[p] = "save"
               /\ res[p].kind = "StorageError"
               /\ calls[p] = [lookups |-> 1, gens |-> i[p] + 1,
                              probes |-> i[p] + 1, saves |-> 1, writes |-> 0]

\* the insert failed on its own, after one collision
C12_Witness ==
    \E p \in Workers :
        /\ Done(p, "create")
        /\ res[p] = Err("StorageError", "io")
        /\ calls[p].saves = 1 /\ calls[p].probes = 2

\* C13: a CreateShortURL whose probe returned an error other than not-found,
\* on whichever attempt, has returned a storage error at once: it has made no
\* SaveMapping call and no attempt after that one, and the table is as it was.
C13_FailedProbeAborts ==
    \A p \in Workers :
        failed[p] = "probe" =>
            /\ Done(p, "create")
            /\ res[p] = Err("StorageError", "probe")
            /\ calls[p] = [lookups |-> 1, gens |-> i[p] + 1,
                           probes |-> i[p] + 1, saves |-> 0, writes |-> 0]
            /\ urls = before

\* the probe failed on the third attempt
C13_Witness ==
    \E p \in Workers :
        /\ Done(p, "create") /\ failed[p] = "probe"
        /\ i[p] = 2 /\ calls[p].probes = 3

\* C20: a CreateShortURL of a valid URL whose reverse lookup returned an
\* error has returned a storage error before the retry loop: it has generated
\* and probed no code, made no SaveMapping call, and the table is as it was.
C20_FailedLookupAborts ==
    \A p \in Workers :
        failed[p] = "lookup" =>
            /\ Done(p, "create")
            /\ req[p].url \in ValidInputs
            /\ res[p] = Err("StorageError", "lookup")
            /\ calls[p] = [lookups |-> 1, gens |-> 0, probes |-> 0,
                           saves |-> 0, writes |-> 0]
            /\ i[p] = 0
            /\ urls = before

\* the lookup of a URL that has a mapping failed
C20_Witness ==
    \E p \in Workers :
        /\ Done(p, "create") /\ failed[p] = "lookup"
        /\ RowsByURL(urls, req[p].url) # {}

\* the rows of t whose short_code is not c, and the short codes of t
OtherRows(t, c) == { r \in t : r.short_code # c }
ShortCodes(t) == { r.short_code : r \in t }

\* C14: UpdateLongURL(C1, V), V valid, when the table has a row for C1 and V
\* is the long_url of a row of another code C2: the update succeeds, and
\* FindByShortCode then returns V for C1 and for every such C2.
C14_UpdateMayAlias ==
    \A p \in Workers :
        (/\ Done(p, "update")
         /\ req[p].url \in ValidInputs
         /\ RowsByCode(before, req[p].code) # {}) =>
            \A r2 \in OtherRows(before, req[p].code) :
                r2.long_url = req[p].url =>
                    /\ res[p].kind = "ok"
                    /\ FindByShortCode(urls, req[p].code) =
                           [err |-> "nil", longURL |-> req[p].url]
                    /\ FindByShortCode(urls, r2.short_code) =
                           [err |-> "nil", longURL |-> req[p].url]

\* an update has made a second code point at a URL that another code has
C14_Witness ==
    \E p \in Workers :
        /\ Done(p, "update") /\ res[p].kind = "ok"
        /\ \E r1 \in before : \E r2 \in before :
               /\ r1.short_code = req[p].code
               /\ r1.long_url # req[p].url
               /\ r2.short_code # req[p].code
               /\ r2.long_url = req[p].url
        /\ Cardinality(RowsByURL(urls, req[p].url)) = 2

\* C16: an UpdateLongURL whose new URL fails validation never gets past the
\* validation, whether the code has a mapping or not: it makes no store call,
\* leaves the table as it was and returns the invalid-URL error.
C16_UpdateInvalidURL ==
    \A p \in Workers :
        (req[p].op = "update" /\ req[p].url \in InvalidInputs) =>
            /\ pc[p] \in {"update", "done"}
            /\ calls[p] = NoCalls
            /\ urls = before
            /\ pc[p] = "done" => res[p] = Err("InvalidURL", "")

\* an invalid update of a code that has no mapping, while another code has
C16_Witness ==
    \E p \in Workers :
        /\ Done(p, "update")
        /\ req[p].url \in InvalidInputs
        /\ res[p].kind = "InvalidURL"
        /\ RowsByCode(urls, req[p].code) = {}
        /\ urls # {}

\* C19: UpdateLongURL(C, _) and DeleteMapping(C) leave every row of another
\* code as it was; an update that succeeds keeps the set of short codes, a
\* delete that succeeds removes the row of C and nothing else, and an update
\* or delete that returns not-found leaves the table as it was.
C19_UpdateDeleteFrame ==
    \A p \in Workers :
        (Done(p, "update") \/ Done(p, "delete")) =>
            /\ OtherRows(urls, req[p].code) = OtherRows(before, req[p].code)
            /\ res[p].kind = "NotFound" => urls = before
            /\ (Done(p, "update") /\ res[p].kind = "ok") =>
                   ShortCodes(urls) = ShortCodes(before)
            /\ (Done(p, "delete") /\ res[p].kind = "ok") =>
                   /\ RowsByCode(before, req[p].code) # {}
                   /\ urls = before \ RowsByCode(before, req[p].code)

\* a delete has removed one of two rows
C19_Witness ==
    \E p \in Workers :
        /\ Done(p, "delete") /\ res[p].kind = "ok"
        /\ Cardinality(before) = 2 /\ Cardinality(urls) = 1

\* C18: in every interleaving of requests, a step of CreateShortURL leaves
\* every row the table has in the table, with the id, short_code and long_url
\* it had.
C18_CreateKeepsRows ==
    [][(\E p \in Workers : CreateStep(p)) => \A r \in urls : r \in urls']_vars

\* a create has ended on the code of a row that holds another URL
C18_Witness ==
    \E p \in Workers :
        /\ Done(p, "create")
        /\ res[p].kind = "StorageError"
        /\ \E r \in urls : r.short_code = code[p] /\ r.long_url # req[p].url

\* p has returned from a CreateShortURL that came right after a successful
\* UpdateLongURL(C, V) of a row that held (C, U), U # V
CreatedAfterUpdate(p, U) ==
    /\ Done(p, "create")
    /\ After(p, "update")
    /\ U # prev[p].req.url
    /\ \E r \in prev[p].before :
           r.short_code = prev[p].req.code /\ r.long_url = U

\* the table t with one more row, of a short code c that t has no row for
Persisted(t, c, u) ==
    /\ RowsByCode(t, c) = {}
    /\ \E r \in urls : /\ r.short_code = c /\ r.long_url = u
                       /\ r \notin t
                       /\ urls = t \cup {r}

\* C17 as stated: after C was mapped to U and UpdateLongURL(C, V) succeeded,
\* V # U, CreateShortURL(V) returns C and adds no row, and CreateShortURL(U)
\* returns a code other than C under which it has persisted a new row.
C17_DedupFollowsUpdate ==
    \A p \in Workers : \A U \in ValidInputs :
        CreatedAfterUpdate(p, U) =>
            /\ req[p].url = prev[p].req.url =>
                   /\ res[p] = Ok(prev[p].req.code, "")
                   /\ urls = before
            /\ req[p].url = U =>
                   /\ res[p].kind = "ok"
                   /\ res[p].code # prev[p].req.code
                   /\ Persisted(before, res[p].code, U)

\* C17 as amended: CreateShortURL(V) adds no row and returns the code of a
\* row whose long_url is V, which is C when no other code has V;
\* CreateShortURL(U) never returns C, and when no row has U it either
\* persists a new row under a code other than C or ends with the retries
\* exhausted and the table as it was.
C17_DedupFollowsUpdateUnlessAliased ==
    \A p \in Workers : \A U \in ValidInputs :
        CreatedAfterUpdate(p, U) =>
            /\ req[p].url = prev[p].req.url =>
                   /\ res[p].kind = "ok"
                   /\ urls = before
                   /\ \E r \in urls : /\ r.short_code = res[p].code
                                      /\ r.long_url = req[p].url
                   /\ ShortCodes(RowsByURL(before, req[p].url)) =
                          {prev[p].req.code} =>
                          res[p].code = prev[p].req.code
            /\ req[p].url = U =>
                   /\ res[p].code # prev[p].req.code
                   /\ RowsByURL(before, U) = {} =>
                          \/ /\ res[p].kind = "ok"
                             /\ Persisted(before, res[p].code, U)
                          \/ /\ res[p].kind = "ExhaustedRetries"
                             /\ urls = before

\* C alone has V after the update, and CreateShortURL(V) has returned C
C17_Witness ==
    \E p \in Workers : \E U \in ValidInputs :
        /\ CreatedAfterUpdate(p, U)
        /\ req[p].url = prev[p].req.url
        /\ ShortCodes(RowsByURL(before, req[p].url)) = {prev[p].req.code}
        /\ res[p].code = prev[p].req.code

\* no row has U after the update, and CreateShortURL(U) has persisted one
C17_WitnessOldURL ==
    \E p \in Workers : \E U \in ValidInputs :
        /\ CreatedAfterUpdate(p, U)
        /\ req[p].url = U
        /\ res[p].kind = "ok"
        /\ Persisted(before, res[p].code, U)

\* the positions of a CreateShortURL that has not returned
InCreate(p) == pc[p] \in {"create", "lookup", "gen", "save"}

\* C15: every CreateShortURL returns, with a result or an error, the store
\* calls it makes returning or failing; one request makes at most one reverse
\* lookup, maxGenerationRetries generations, maxGenerationRetries probes and
\* one SaveMapping, and nothing is retried outside the loop of the request.
C15_CreateTerminatesBounded ==
    /\ [](\A p \in Workers :
              /\ calls[p].lookups <= 1
              /\ calls[p].gens <= maxGenerationRetries
              /\ calls[p].probes <= maxGenerationRetries
              /\ calls[p].saves <= 1
              /\ (pc[p] = "done" /\ req[p].op = "create") =>
                     res[p].kind # "none")
    /\ \A p \in Workers : InCreate(p) ~> (pc[p] = "done")

\* a request has used the whole of its budget: four collisions, a fifth probe
\* that found the code free, and the insert
C15_Witness ==
    \E p \in Workers :
        /\ Done(p, "create")
        /\ calls[p] = [lookups |-> 1, gens |-> maxGenerationRetries,
                       probes |-> maxGenerationRetries, saves |-> 1,
                       writes |-> 1]

====
